---- MODULE Spec2Model ----
(***************************************************************************)
(* simple-portfolio (src/src/index.ts): createPortfolio, addProject and    *)
(* generateHTML over one Portfolio, with the private helpers escapeHTML    *)
(* and isValidURL.                                                         *)
(*                                                                         *)
(* Texts are TLA+ strings, read character by character with Head and Tail. *)
(* A JavaScript `undefined` (an absent optional field, or a required field *)
(* the caller left out) is the value Undefined, which no input text equals.*)
(* Objects the caller keeps a reference to live in a small heap: the       *)
(* caller's project objects (callerProjects) and the technologies arrays   *)
(* (arrays), so that what `{ ...project }` copies and what it shares is    *)
(* part of the state.                                                      *)
(***************************************************************************)
EXTENDS Integers, Sequences, FiniteSets, TLC

VARIABLES
    portfolio,       \* <<>> until createPortfolio returns, then <<[config, projects]>>
    callerProjects,  \* the project objects the caller passed to successful addProject calls
    arrays,          \* heap of technologies arrays; a project's technologies field is an index
    mutations,       \* number of assignments the caller made to objects it kept
    called,          \* the last step taken
    argument,        \* <<the argument of the last call>>, <<>> when it had none
    outcome          \* what the last call returned or threw

vars == <<portfolio, callerProjects, arrays, mutations, called, argument, outcome>>

\* Number of assignments the caller makes to the objects it passed in.
MaxMutations == 2

Undefined == "undefined"

\* JavaScript truthiness of a string | undefined value: !x is true for
\* undefined and for the empty string.
Truthy(x) == x # Undefined /\ x # ""

--------------------------------------------------------------------------
(* Outcomes of a call *)

Returned(kind, text) == [kind |-> kind, text |-> text]
ThrewError(message) == [kind |-> "Error", text |-> message]
\* A property read on undefined; the message text is the engine's.
ThrewTypeError == [kind |-> "TypeError", text |-> ""]

--------------------------------------------------------------------------
(* String helpers *)

\* The positions of the character ch in str.
indicesOf(str, ch) == {i \in 1..Len(str) : SubSeq(str, i, i) = ch}

RECURSIVE replaceAll(_, _, _)
\* String.prototype.replace with a global one-character pattern: every
\* occurrence of ch, from the left, gives way to rep; rep is not scanned again.
replaceAll(str, ch, rep) ==
    LET found == indicesOf(str, ch)
    IN  IF found = {} THEN str
        ELSE LET first == CHOOSE i \in found : \A k \in found : i <= k
             IN  SubSeq(str, 1, first - 1) \o rep
                 \o replaceAll(SubSeq(str, first + 1, Len(str)), ch, rep)

RECURSIVE join(_, _)
\* Array.prototype.join
join(strs, sep) ==
    IF strs = <<>> THEN ""
    ELSE IF Len(strs) = 1 THEN Head(strs)
    ELSE Head(strs) \o sep \o join(Tail(strs), sep)

\* Array.prototype.filter is SelectSeq; Array.prototype.map(f) of an array a
\* is the sequence [i \in 1..Len(a) |-> f(a[i])].

--------------------------------------------------------------------------
(* escapeHTML *)

\* Mutant: the ampersand pass runs last, over the entities already inserted.
escapeHTML_AmpersandLast(str) ==
    replaceAll(
        replaceAll(
            replaceAll(
                replaceAll(
                    replaceAll(str, "<", "&lt;"),
                    ">", "&gt;"),
                "\"", "&quot;"),
            "'", "&#039;"),
        "&", "&amp;")

escapeHTML(str) ==
    replaceAll(
        replaceAll(
            replaceAll(
                replaceAll(
                    replaceAll(str, "&", "&amp;"),
                    "<", "&lt;"),
                ">", "&gt;"),
            "\"", "&quot;"),
        "'", "&#039;")

\* str.replace on undefined throws before anything is returned.
escapeHTMLThrows(str) == str = Undefined

--------------------------------------------------------------------------
(* isValidURL: `new URL(url)` without a base.  The parser is the           *)
(* platform's; what is modelled is the part of it that decides the inputs  *)
(* used here: a URL needs a scheme (a letter, then letters, digits, +, -   *)
(* or ., then a colon); after a special scheme other than file the slashes *)
(* must be followed by a non-empty host; after any other scheme the rest   *)
(* is an opaque path, in which every character is accepted.                *)

Letters ==
    {"a", "b", "c", "d", "e", "f", "g", "h", "i", "j", "k", "l", "m",
     "n", "o", "p", "q", "r", "s", "t", "u", "v", "w", "x", "y", "z",
     "A", "B", "C", "D", "E", "F", "G", "H", "I", "J", "K", "L", "M",
     "N", "O", "P", "Q", "R", "S", "T", "U", "V", "W", "X", "Y", "Z"}

Digits == {"0", "1", "2", "3", "4", "5", "6", "7", "8", "9"}

SchemeChars == Letters \cup Digits \cup {"+", "-", "."}

HostChars == Letters \cup Digits \cup {"-", "."}

SpecialSchemes == {"http", "https", "ftp", "ws", "wss"}

RECURSIVE takeWhile(_, _)
\* The longest prefix of str made of characters of set.
takeWhile(str, set) ==
    IF str = "" \/ Head(str) \notin set THEN ""
    ELSE Head(str) \o takeWhile(Tail(str), set)

\* str without its first n characters.
drop(str, n) == SubSeq(str, n + 1, Len(str))

isValidURL(url) ==
    LET scheme == takeWhile(url, SchemeChars)
        rest   == drop(url, Len(scheme))
        after  == drop(rest, Len(takeWhile(drop(rest, 1), {"/", "\\"})) + 1)
    IN  /\ url # ""
        /\ Head(url) \in Letters
        /\ rest # ""
        /\ Head(rest) = ":"
        /\ scheme \in SpecialSchemes => takeWhile(after, HostChars) # ""

--------------------------------------------------------------------------
(* createPortfolio *)

\* socialLinks is either absent or an object, whose entries Object.entries
\* lists in insertion order.
NoSocialLinks == [present |-> FALSE, entries |-> <<>>]
SocialLinks(entries) == [present |-> TRUE, entries |-> entries]
Link(platform, url) == [platform |-> platform, url |-> url]

invalidLinks(config) ==
    LET invalid == SelectSeq(config.socialLinks.entries,
                             LAMBDA e : Truthy(e.url) /\ ~isValidURL(e.url))
    IN  [i \in 1..Len(invalid) |-> invalid[i].platform \o ": " \o invalid[i].url]

\* config.theme || 'light'
resolvedTheme(config) == IF Truthy(config.theme) THEN config.theme ELSE "light"

createPortfolio(config) ==
    IF ~Truthy(config.name) \/ ~Truthy(config.title)
       \/ ~Truthy(config.bio) \/ ~Truthy(config.email)
    THEN [outcome   |-> ThrewError("Portfolio requires name, title, bio, and email in configuration"),
          portfolio |-> <<>>]
    ELSE IF config.socialLinks.present /\ Len(invalidLinks(config)) > 0
    THEN [outcome   |-> ThrewError("Invalid URLs in social links: "
                                   \o join(invalidLinks(config), ", ")),
          portfolio |-> <<>>]
    ELSE [outcome   |-> Returned("Portfolio", ""),
          portfolio |-> <<[config   |-> [config EXCEPT !.theme = resolvedTheme(config)],
                           projects |-> <<>>]>>]

--------------------------------------------------------------------------
(* addProject *)

\* Mutant: the duplicate check never finds the id.
someHasId_Never(projects, id) == FALSE

\* portfolio.projects.some(p => p.id === project.id)
someHasId(projects, id) == \E i \in 1..Len(projects) : projects[i].id = id

\* Mutant: the copy is put at the front of the list.
push_Front(projects, project) ==
    <<[id           |-> project.id,
       title        |-> project.title,
       description  |-> project.description,
       technologies |-> project.technologies,
       url          |-> project.url,
       imageUrl     |-> project.imageUrl]>> \o projects

\* portfolio.projects.push({ ...project }): the own properties of project are
\* copied into a new object; the technologies property holds a reference to
\* an array, and the reference is what is copied.
push(projects, project) ==
    Append(projects,
           [id           |-> project.id,
            title        |-> project.title,
            description  |-> project.description,
            technologies |-> project.technologies,
            url          |-> project.url,
            imageUrl     |-> project.imageUrl])

\* The checks of addProject, in the order of the code; each throws.
requiredMissing(project) ==
    ~Truthy(project.id) \/ ~Truthy(project.title)
    \/ ~Truthy(project.description) \/ ~Truthy(project.url)

\* Mutant: the imageUrl is never checked.
imageUrlRejected_Never(project) == FALSE

imageUrlRejected(project) ==
    Truthy(project.imageUrl) /\ ~isValidURL(project.imageUrl)

\* Mutant: the url check is made before the duplicate-id check.
addProjectThrows_UrlBeforeDuplicate(projects, project) ==
    IF requiredMissing(project)
    THEN ThrewError("Project requires id, title, description, and url")
    ELSE IF ~isValidURL(project.url)
    THEN ThrewError("Invalid URL in project \"" \o project.title
                    \o "\": " \o project.url)
    ELSE IF someHasId(projects, project.id)
    THEN ThrewError("Project with ID \"" \o project.id \o "\" already exists")
    ELSE IF imageUrlRejected(project)
    THEN ThrewError("Invalid image URL in project \"" \o project.title
                    \o "\": " \o project.imageUrl)
    ELSE Returned("void", "")

addProjectThrows(projects, project) ==
    IF requiredMissing(project)
    THEN ThrewError("Project requires id, title, description, and url")
    ELSE IF someHasId(projects, project.id)
    THEN ThrewError("Project with ID \"" \o project.id \o "\" already exists")
    ELSE IF ~isValidURL(project.url)
    THEN ThrewError("Invalid URL in project \"" \o project.title
                    \o "\": " \o project.url)
    ELSE IF imageUrlRejected(project)
    THEN ThrewError("Invalid image URL in project \"" \o project.title
                    \o "\": " \o project.imageUrl)
    ELSE Returned("void", "")

\* Mutant: the project is pushed before the checks are made.
addProject_PushBeforeChecks(projects, project) ==
    [outcome  |-> addProjectThrows(projects, project),
     projects |-> push(projects, project)]

\* A throw leaves the function before the push on its last line.
addProject(projects, project) ==
    LET thrown == addProjectThrows(projects, project)
    IN  [outcome  |-> thrown,
         projects |-> IF thrown.kind = "Error" THEN projects
                      ELSE push(projects, project)]

--------------------------------------------------------------------------
(* generateHTML *)

themeStyles(config) ==
    IF config.theme = "dark"
    THEN "body { background: #121212; color: #ffffff; }"
    ELSE "body { background: #ffffff; color: #000000; }"

techTags(technologies) ==
    join([i \in 1..Len(technologies) |->
             "<span class=\"tech-tag\">" \o escapeHTML(technologies[i]) \o "</span>"],
         "")

\* One project card; heap resolves the technologies reference.
projectCard(project, heap) ==
    "\n      <div class=\"project-card\">\n"
    \o "        <h3>" \o escapeHTML(project.title) \o "</h3>\n"
    \o "        <p>" \o escapeHTML(project.description) \o "</p>\n"
    \o "        <div class=\"tech-list\">" \o techTags(heap[project.technologies]) \o "</div>\n"
    \o "        <a href=\"" \o escapeHTML(project.url)
    \o "\" target=\"_blank\" rel=\"noopener noreferrer\">View Project</a>\n"
    \o "        "
    \o (IF Truthy(project.imageUrl)
        THEN "<img src=\"" \o escapeHTML(project.imageUrl)
             \o "\" alt=\"" \o escapeHTML(project.title) \o "\">"
        ELSE "")
    \o "\n      </div>\n    "

projectCards(projects, heap) ==
    join([i \in 1..Len(projects) |-> projectCard(projects[i], heap)], "")

socialLink(e) ==
    "<a href=\"" \o escapeHTML(e.url)
    \o "\" class=\"social-link\" rel=\"noopener noreferrer\">"
    \o escapeHTML(e.platform) \o "</a>"

socialLinks(config) ==
    IF config.socialLinks.present
    THEN join([i \in 1..Len(config.socialLinks.entries) |->
                  socialLink(config.socialLinks.entries[i])], "")
    ELSE ""

\* escapeHTML(url) on an entry whose value is undefined.
socialLinksThrow(config) ==
    /\ config.socialLinks.present
    /\ \E i \in 1..Len(config.socialLinks.entries) :
           escapeHTMLThrows(config.socialLinks.entries[i].url)

document(p, heap) ==
    "<!DOCTYPE html>\n"
    \o "<html lang=\"en\">\n"
    \o "<head>\n"
    \o "  <meta charset=\"UTF-8\">\n"
    \o "  <meta name=\"viewport\" content=\"width=device-width, initial-scale=1.0\">\n"
    \o "  <title>" \o escapeHTML(p.config.name) \o " - " \o escapeHTML(p.config.title)
    \o "</title>\n"
    \o "  <style>\n"
    \o "    " \o themeStyles(p.config) \o "\n"
    \o "    body { font-family: system-ui, sans-serif; padding: 2rem; max-width: 1000px; margin: auto; }\n"
    \o "    h1, h2 { color: #1a73e8; }\n"
    \o "    .project-card { border: 1px solid #ccc; padding: 1rem; margin: 1rem 0; border-radius: 8px; }\n"
    \o "    .tech-tag { background: #eee; padding: 0.3rem 0.6rem; margin: 0.3rem; border-radius: 4px; }\n"
    \o "    .social-link { margin: 0 0.5rem; color: inherit; text-decoration: none; }\n"
    \o "  </style>\n"
    \o "</head>\n"
    \o "<body>\n"
    \o "  <header>\n"
    \o "    <h1>" \o escapeHTML(p.config.name) \o "</h1>\n"
    \o "    <h2>" \o escapeHTML(p.config.title) \o "</h2>\n"
    \o "    <p>" \o escapeHTML(p.config.bio) \o "</p>\n"
    \o "    <p>Email: <a href=\"mailto:" \o escapeHTML(p.config.email) \o "\">"
    \o escapeHTML(p.config.email) \o "</a></p>\n"
    \o "    <div>" \o socialLinks(p.config) \o "</div>\n"
    \o "  </header>\n"
    \o "  <main>\n"
    \o "    <h2>Projects</h2>\n"
    \o "    " \o projectCards(p.projects, heap) \o "\n"
    \o "  </main>\n"
    \o "</body>\n"
    \o "</html>"

\* The config half of the guard is always false for a portfolio that
\* createPortfolio returned.
generateHTML(p, heap) ==
    IF Len(p.projects) = 0
    THEN ThrewError("Cannot generate HTML for empty portfolio")
    ELSE IF socialLinksThrow(p.config)
    THEN ThrewTypeError
    ELSE Returned("string", document(p, heap))

--------------------------------------------------------------------------
(* The caller's inputs *)

Config(name, title, bio, email, links, theme) ==
    [name |-> name, title |-> title, bio |-> bio, email |-> email,
     socialLinks |-> links, theme |-> theme]

ConfigInputs ==
    { Config("Alice", "Developer", "Full stack developer", "alice@example.com",
             SocialLinks(<<Link("github", "https://github.com/alice"),
                           Link("linkedin", "https://linkedin.com/in/alice")>>),
             "dark"),
      Config("Al & <Bo>", "\"Dev\"", "it's > all", "o'neil@x.io",
             SocialLinks(<<Link("git<hub>", "x:\"a\"&<b>"),
                           Link("twitter", "https://t.co/?a=1&b=2"),
                           Link("linkedin", "")>>),
             Undefined),
      Config("Carol", "Designer", "Creative designer", "carol@example.com",
             NoSocialLinks, "blue"),
      Config("Dan", "Writer", "Words", "dan@example.com",
             SocialLinks(<<Link("github", Undefined),
                           Link("linkedin", "https://linkedin.com/in/dan")>>),
             ""),
      Config("Test", "Title", "Bio", Undefined, NoSocialLinks, Undefined),
      Config("", "Title", "Bio", "t@example.com", NoSocialLinks, "dark"),
      Config("Hal", "Title", "Bio", "hal@example.com",
             SocialLinks(<<Link("github", "nope"),
                           Link("linkedin", "https://linkedin.com/in/hal"),
                           Link("twitter", "//t.co/hal")>>),
             "light") }

\* A project as the caller writes it, technologies being an array literal.
Project(id, title, description, technologies, url, imageUrl) ==
    [id |-> id, title |-> title, description |-> description,
     technologies |-> technologies, url |-> url, imageUrl |-> imageUrl]

ProjectInputs ==
    { Project("1", "Test Project", "A sample project", <<"React", "TypeScript">>,
              "https://project.com", "https://image.com/project.jpg"),
      Project("2", "<script>", "a & b", <<"C++ & \"C#\"">>,
              "x:\"<&>'", "https://i.io/?a=1&b='2'"),
      Project("3", "Notes", "Plain", <<>>, "https://notes.io", ""),
      Project("1", "Duplicate", "Duplicate ID", <<"JavaScript">>,
              "https://duplicate.com", Undefined),
      Project("1", "", Undefined, <<>>, "nope", "bad"),
      Project("1", "Broken", "Bad links", <<>>, "nope", "bad"),
      Project("4", "Image", "Bad image", <<"HTML">>, "https://ok.io", "bad") }

\* What the caller assigns to the objects it kept.
MutatedTitle == "Renamed"
MutatedTechnology == "<Rust>"

--------------------------------------------------------------------------
(* The state machine *)

Init ==
    /\ portfolio = <<>>
    /\ callerProjects = <<>>
    /\ arrays = <<>>
    /\ mutations = 0
    /\ called = "none"
    /\ argument = <<>>
    /\ outcome = Returned("none", "")

CreatePortfolio(config) ==
    /\ portfolio = <<>>
    /\ LET r == createPortfolio(config)
       IN  /\ portfolio' = r.portfolio
           /\ outcome' = r.outcome
    /\ called' = "createPortfolio"
    /\ argument' = <<config>>
    /\ UNCHANGED <<callerProjects, arrays, mutations>>

\* The caller builds a project object, whose technologies array is new, and
\* passes it to addProject; it keeps the object when the call stored a copy.
AddProject(input) ==
    /\ portfolio # <<>>
    /\ LET project == [input EXCEPT !.technologies = Len(arrays) + 1]
           r       == addProject(portfolio[1].projects, project)
       IN  /\ portfolio' = <<[portfolio[1] EXCEPT !.projects = r.projects]>>
           /\ outcome' = r.outcome
           /\ IF r.projects # portfolio[1].projects
              THEN /\ arrays' = Append(arrays, input.technologies)
                   /\ callerProjects' = Append(callerProjects, project)
              ELSE UNCHANGED <<arrays, callerProjects>>
    /\ called' = "addProject"
    /\ argument' = <<input>>
    /\ UNCHANGED mutations

GenerateHTML ==
    /\ portfolio # <<>>
    /\ outcome' = generateHTML(portfolio[1], arrays)
    /\ called' = "generateHTML"
    /\ argument' = <<>>
    /\ UNCHANGED <<portfolio, callerProjects, arrays, mutations>>

\* The caller assigns to the title of a project object it passed in.
MutateTitle(i) ==
    /\ mutations < MaxMutations
    /\ callerProjects[i].title # MutatedTitle
    /\ callerProjects' = [callerProjects EXCEPT ![i].title = MutatedTitle]
    /\ mutations' = mutations + 1
    /\ called' = "mutate"
    /\ argument' = <<>>
    /\ outcome' = Returned("none", "")
    /\ UNCHANGED <<portfolio, arrays>>

\* The caller assigns to an element of the technologies array of a project
\* object it passed in.
MutateTechnology(i, j) ==
    /\ mutations < MaxMutations
    /\ LET a == callerProjects[i].technologies
       IN  /\ arrays[a][j] # MutatedTechnology
           /\ arrays' = [arrays EXCEPT ![a][j] = MutatedTechnology]
    /\ mutations' = mutations + 1
    /\ called' = "mutate"
    /\ argument' = <<>>
    /\ outcome' = Returned("none", "")
    /\ UNCHANGED <<portfolio, callerProjects>>

Next ==
    \/ \E config \in ConfigInputs : CreatePortfolio(config)
    \/ \E input \in ProjectInputs : AddProject(input)
    \/ GenerateHTML
    \/ \E i \in 1..Len(callerProjects) : MutateTitle(i)
    \/ \E i \in 1..Len(callerProjects) :
           \E j \in 1..Len(arrays[callerProjects[i].technologies]) : MutateTechnology(i, j)

Spec == Init /\ [][Next]_vars

--------------------------------------------------------------------------
(* Vocabulary of the properties *)

\* portfolio.projects, empty while there is no portfolio.
Projects == IF portfolio = <<>> THEN <<>> ELSE portfolio[1].projects

\* sub occurs in str.
Contains(str, sub) ==
    \E i \in 1..(Len(str) - Len(sub) + 1) : SubSeq(str, i, i + Len(sub) - 1) = sub

\* str begins with sub.
StartsWith(str, sub) == SubSeq(str, 1, Len(sub)) = sub

\* Some stored project has this id.
Stored(projects, id) == \E k \in 1..Len(projects) : projects[k].id = id

\* The four required fields of a project are non-empty strings.
RequiredPresent(project) ==
    \A field \in {project.id, project.title, project.description, project.url} :
        field # Undefined /\ field # ""

\* The last step was an addProject call that threw.
AddProjectFailed == called = "addProject" /\ outcome.kind = "Error"

--------------------------------------------------------------------------
(* C1 *)

\* C1 (as stated): no two stored projects share an id, and every addProject
\* call whose project id is the id of a stored project throws an error whose
\* message contains that id.
C1_DuplicateIdAlwaysNamed ==
    [][ /\ \A i, j \in 1..Len(Projects') :
               i # j => Projects'[i].id # Projects'[j].id
        /\ (called' = "addProject" /\ Stored(Projects, argument'[1].id))
               => AddProjectFailed' /\ Contains(outcome'.text, argument'[1].id)
      ]_vars

\* C1 (amended): no two stored projects share an id, and every addProject
\* call whose required fields are all non-empty and whose project id is the
\* id of a stored project throws an error whose message contains that id.
C1_NoDuplicateIds ==
    [][ /\ \A i, j \in 1..Len(Projects') :
               i # j => Projects'[i].id # Projects'[j].id
        /\ (called' = "addProject" /\ RequiredPresent(argument'[1])
            /\ Stored(Projects, argument'[1].id))
               => AddProjectFailed' /\ Contains(outcome'.text, argument'[1].id)
      ]_vars

\* A call with a complete project whose id is stored has thrown, naming the id.
C1_Witness ==
    /\ AddProjectFailed
    /\ RequiredPresent(argument[1])
    /\ Stored(Projects, argument[1].id)
    /\ Contains(outcome.text, "\"" \o argument[1].id \o "\"")

--------------------------------------------------------------------------
(* C2 *)

\* C2: an addProject call that throws leaves portfolio.projects, and the
\* objects its elements refer to, exactly as they were.
C2_FailedAddChangesNothing ==
    [][ AddProjectFailed'
            => /\ Projects' = Projects
               /\ arrays' = arrays
               /\ portfolio' = portfolio
      ]_vars

\* The same id was added twice: the second call threw and the list has one
\* element.
C2_Witness ==
    /\ AddProjectFailed
    /\ Len(Projects) = 1
    /\ outcome.text = "Project with ID \"" \o Projects[1].id \o "\" already exists"

--------------------------------------------------------------------------
(* C3 *)

\* C3: the error of an addProject call is that of the first failing check in
\* the order required fields, duplicate id, url, imageUrl.
C3_FirstFailingCheckWins ==
    [][ called' = "addProject" =>
          LET project == argument'[1]
              missing   == ~RequiredPresent(project)
              duplicate == Stored(Projects, project.id)
              badUrl    == ~isValidURL(project.url)
              badImage  == /\ project.imageUrl # Undefined
                           /\ project.imageUrl # ""
                           /\ ~isValidURL(project.imageUrl)
          IN  /\ missing =>
                   outcome' = ThrewError("Project requires id, title, description, and url")
              /\ (~missing /\ duplicate) =>
                   outcome' = ThrewError("Project with ID \"" \o project.id
                                         \o "\" already exists")
              /\ (~missing /\ ~duplicate /\ badUrl) =>
                   /\ outcome'.kind = "Error"
                   /\ StartsWith(outcome'.text, "Invalid URL in project ")
              /\ (~missing /\ ~duplicate /\ ~badUrl /\ badImage) =>
                   /\ outcome'.kind = "Error"
                   /\ StartsWith(outcome'.text, "Invalid image URL in project ")
              /\ (~missing /\ ~duplicate /\ ~badUrl /\ ~badImage) =>
                   outcome'.kind = "void"
      ]_vars

\* A project with a stored id and an unparsable url was refused for its id.
C3_Witness ==
    /\ AddProjectFailed
    /\ RequiredPresent(argument[1])
    /\ Stored(Projects, argument[1].id)
    /\ ~isValidURL(argument[1].url)
    /\ outcome.text = "Project with ID \"" \o argument[1].id \o "\" already exists"

--------------------------------------------------------------------------
(* Vocabulary of the properties about the document *)

\* The last step was a generateHTML call that returned a document.
Rendered == called = "generateHTML" /\ outcome.kind = "string"

\* The entity of one character.
Entity(c) ==
    CASE c = "&"  -> "&amp;"
      [] c = "<"  -> "&lt;"
      [] c = ">"  -> "&gt;"
      [] c = "\"" -> "&quot;"
      [] c = "'"  -> "&#039;"
      [] OTHER    -> c

\* str with each character replaced, once, by its entity.
EntityMap(str) == join([i \in 1..Len(str) |-> Entity(SubSeq(str, i, i))], "")

\* str with each character replaced by a letter.
Plain(str) ==
    IF str = Undefined THEN Undefined ELSE join([i \in 1..Len(str) |-> "a"], "")

\* How often the character c occurs in str.
CountOf(str, c) == Cardinality(indicesOf(str, c))

\* The stored projects with their technologies arrays in place of the
\* references to them.
Deep(projects, heap) ==
    [k \in 1..Len(projects) |->
        [projects[k] EXCEPT !.technologies = heap[projects[k].technologies]]]

\* The portfolio and the heap with every text made of letters only.
PlainPortfolio ==
    [config |->
        [name  |-> Plain(portfolio[1].config.name),
         title |-> Plain(portfolio[1].config.title),
         bio   |-> Plain(portfolio[1].config.bio),
         email |-> Plain(portfolio[1].config.email),
         theme |-> portfolio[1].config.theme,
         socialLinks |->
            [present |-> portfolio[1].config.socialLinks.present,
             entries |->
                [k \in 1..Len(portfolio[1].config.socialLinks.entries) |->
                    Link(Plain(portfolio[1].config.socialLinks.entries[k].platform),
                         Plain(portfolio[1].config.socialLinks.entries[k].url))]]],
     projects |->
        [k \in 1..Len(Projects) |->
            [id           |-> Projects[k].id,
             title        |-> Plain(Projects[k].title),
             description  |-> Plain(Projects[k].description),
             technologies |-> Projects[k].technologies,
             url          |-> Plain(Projects[k].url),
             imageUrl     |-> Plain(Projects[k].imageUrl)]]]

PlainArrays ==
    [a \in 1..Len(arrays) |-> [t \in 1..Len(arrays[a]) |-> Plain(arrays[a][t])]]

--------------------------------------------------------------------------
(* C4 *)

\* C4: an assignment by the caller to a project object it passed to
\* addProject, or to an element of that object's technologies array, changes
\* neither the stored projects nor the document generateHTML would return.
C4_StoredCopyIndependent ==
    [][ called' = "mutate" =>
          /\ Deep(Projects', arrays') = Deep(Projects, arrays)
          /\ generateHTML(portfolio'[1], arrays') = generateHTML(portfolio[1], arrays)
      ]_vars

--------------------------------------------------------------------------
(* C5 *)

\* C5: the stored theme is always light or dark; right after createPortfolio
\* it is the supplied theme if that is light or dark, and light otherwise.
C5_ThemeLightOrDark ==
    portfolio # <<>> =>
        /\ portfolio[1].config.theme \in {"light", "dark"}
        /\ called = "createPortfolio" =>
              portfolio[1].config.theme =
                  IF argument[1].theme \in {"light", "dark"}
                  THEN argument[1].theme ELSE "light"

--------------------------------------------------------------------------
(* C6 *)

\* C6: generateHTML throws 'Cannot generate HTML for empty portfolio' exactly
\* when no project is stored, and returns a document whenever one is.
C6_GenerateFailsOnlyWhenEmpty ==
    called = "generateHTML" =>
        /\ (outcome = ThrewError("Cannot generate HTML for empty portfolio"))
               <=> (Len(Projects) = 0)
        /\ Len(Projects) > 0 => outcome.kind = "string"

--------------------------------------------------------------------------
(* C7 *)

\* The document holds the entity mapping of every text of the portfolio in
\* the place the template gives it.
EveryTextMapped(html) ==
    LET config == portfolio[1].config
        links  == config.socialLinks.entries
    IN  /\ Contains(html, "<title>" \o EntityMap(config.name) \o " - "
                          \o EntityMap(config.title) \o "</title>")
        /\ Contains(html, "<h1>" \o EntityMap(config.name) \o "</h1>")
        /\ Contains(html, "<h2>" \o EntityMap(config.title) \o "</h2>")
        /\ Contains(html, "<p>" \o EntityMap(config.bio) \o "</p>")
        /\ Contains(html, "<a href=\"mailto:" \o EntityMap(config.email) \o "\">"
                          \o EntityMap(config.email) \o "</a>")
        /\ \A k \in 1..Len(links) :
              /\ Contains(html, "<a href=\"" \o EntityMap(links[k].url)
                                \o "\" class=\"social-link\"")
              /\ Contains(html, ">" \o EntityMap(links[k].platform) \o "</a>")
        /\ \A k \in 1..Len(Projects) :
              LET project == Projects[k]
                  technologies == arrays[project.technologies]
              IN  /\ Contains(html, "<h3>" \o EntityMap(project.title) \o "</h3>")
                  /\ Contains(html, "<p>" \o EntityMap(project.description) \o "</p>")
                  /\ Contains(html, "<a href=\"" \o EntityMap(project.url)
                                    \o "\" target=\"_blank\"")
                  /\ \A t \in 1..Len(technologies) :
                        Contains(html, "<span class=\"tech-tag\">"
                                       \o EntityMap(technologies[t]) \o "</span>")
                  /\ (project.imageUrl # Undefined /\ project.imageUrl # "") =>
                        Contains(html, "<img src=\"" \o EntityMap(project.imageUrl)
                                       \o "\" alt=\"" \o EntityMap(project.title)
                                       \o "\">")

\* The document has as many <, >, " and ' as the document of the same
\* portfolio with every text made of letters: none comes from a text.
NoRawCharacterFromText(html) ==
    LET plain == generateHTML(PlainPortfolio, PlainArrays).text
    IN  \A c \in {"<", ">", "\"", "'"} : CountOf(html, c) = CountOf(plain, c)

\* C7: in a document generateHTML returned, every user-supplied text appears
\* as its character-by-character entity mapping, and no raw <, >, " or '
\* comes from a text.
C7_EveryTextEscaped ==
    Rendered => EveryTextMapped(outcome.text) /\ NoRawCharacterFromText(outcome.text)

\* A document was returned for a portfolio whose config, social links and
\* project texts hold &, <, >, " and '.
C7_Witness ==
    /\ Rendered
    /\ portfolio[1].config.name = "Al & <Bo>"
    /\ \E k \in 1..Len(Projects) :
          /\ Projects[k].title = "<script>"
          /\ arrays[Projects[k].technologies] = <<"<Rust>">>
    /\ Contains(outcome.text, "<h3>&lt;script&gt;</h3>")
    /\ Contains(outcome.text, "<p>a &amp; b</p>")
    /\ ~Contains(outcome.text, "<script>")

--------------------------------------------------------------------------
(* C8 *)

\* Where the project titles open in the document.
TitleStarts(html) ==
    {i \in 1..(Len(html) - Len("<h3>") + 1) : SubSeq(html, i, i + Len("<h3>") - 1) = "<h3>"}

\* The document holds one card title per project, in the order of the list.
CardsInOrder(html, projects) ==
    LET starts == TitleStarts(html)
    IN  /\ Cardinality(starts) = Len(projects)
        /\ \A i \in starts :
              LET k     == Cardinality({j \in starts : j <= i})
                  title == "<h3>" \o EntityMap(projects[k].title) \o "</h3>"
              IN  /\ i + Len(title) - 1 <= Len(html)
                  /\ SubSeq(html, i, i + Len(title) - 1) = title

--------------------------------------------------------------------------
(* C9 *)

\* C9 (as stated): every stored project has a url that passes isValidURL
\* and, whenever its imageUrl is present, the empty string included, an
\* imageUrl that passes isValidURL.
C9_PresentImageUrlValid ==
    \A k \in 1..Len(Projects) :
        /\ isValidURL(Projects[k].url)
        /\ Projects[k].imageUrl # Undefined => isValidURL(Projects[k].imageUrl)

\* C9 (amended): every stored project has a url that passes isValidURL and,
\* whenever its imageUrl is present and not the empty string, an imageUrl
\* that passes isValidURL.
C9_NonEmptyImageUrlValid ==
    \A k \in 1..Len(Projects) :
        /\ isValidURL(Projects[k].url)
        /\ (Projects[k].imageUrl # Undefined /\ Projects[k].imageUrl # "")
              => isValidURL(Projects[k].imageUrl)

\* Projects with a non-empty imageUrl, with an empty one and with none are
\* stored.
C9_Witness ==
    /\ \E k \in 1..Len(Projects) : Projects[k].imageUrl = "https://i.io/?a=1&b='2'"
    /\ \E k \in 1..Len(Projects) : Projects[k].imageUrl = ""
    /\ \E k \in 1..Len(Projects) : Projects[k].imageUrl = Undefined

--------------------------------------------------------------------------
(* C10 *)

\* No text of the portfolio holds an HTML-significant character.
NoSignificantCharacter ==
    LET config == portfolio[1].config
        links  == config.socialLinks.entries
    IN  /\ \A text \in {config.name, config.title, config.bio, config.email} :
              EntityMap(text) = text
        /\ \A k \in 1..Len(links) :
              EntityMap(links[k].platform) = links[k].platform
              /\ EntityMap(links[k].url) = links[k].url
        /\ \A k \in 1..Len(Projects) :
              /\ \A text \in {Projects[k].title, Projects[k].description,
                              Projects[k].url, Projects[k].imageUrl} :
                    EntityMap(text) = text
              /\ \A t \in 1..Len(arrays[Projects[k].technologies]) :
                    EntityMap(arrays[Projects[k].technologies][t])
                        = arrays[Projects[k].technologies][t]

\* C10: for texts without HTML-significant characters the document holds,
\* for each social link, <a href="U" class="social-link">P</a> and, for each
\* project, <a href="V" target="_blank">View Project</a>.
C10_AnchorsWithoutOtherAttributes ==
    (Rendered /\ NoSignificantCharacter) =>
        /\ \A k \in 1..Len(portfolio[1].config.socialLinks.entries) :
              LET link == portfolio[1].config.socialLinks.entries[k]
              IN  Contains(outcome.text,
                           "<a href=\"" \o link.url \o "\" class=\"social-link\">"
                           \o link.platform \o "</a>")
        /\ \A k \in 1..Len(Projects) :
              Contains(outcome.text,
                       "<a href=\"" \o Projects[k].url
                       \o "\" target=\"_blank\">View Project</a>")

====
